---- MODULE Spec2Model ----
(***************************************************************************)
(* A model of the voice agent: the server-side session coordinator         *)
(* (VoiceAgentServer), the recognition bridge (DeepgramSTT), the response  *)
(* pipeline (GroqLLM), the transport negotiator (WebRTCServer) and the     *)
(* peer-side control-channel client (VoiceAgentClient).                    *)
(*                                                                         *)
(* The server runs on one JavaScript event loop: every action below is one *)
(* run-to-completion callback (a control message, a collaborator event, a  *)
(* promise continuation).  An await on a promise that is already settled   *)
(* resumes in the microtask queue of the same callback, so it is part of   *)
(* the same action; an await on collaborator I/O ends the action and its   *)
(* continuation is an action of its own.                                   *)
(*                                                                         *)
(* Text is a sequence of characters, so that trim() is computed.           *)
(*                                                                         *)
(* The server has several specifications over the same variables and the   *)
(* same handlers: Spec interleaves the control messages with recognition   *)
(* and generation events, SpecIngest with audio frames and transport       *)
(* events, SpecFailure with the failures of the components (errors of the  *)
(* recognition connection and of the control channel, collaborator calls   *)
(* that throw), SpecSignal with remote candidates and payloads no case     *)
(* takes.  SpecQueue starts from bridges whose pre-ready queue is filled,  *)
(* SpecNegotiator drives the methods of the transport negotiator, and      *)
(* SpecClient is the control-channel client.                               *)
(***************************************************************************)
EXTENDS Integers, Sequences, FiniteSets, TLC

\* ---------------------------------------------------------------- bounds
MaxSteps == 8      \* events handled in one run of the server model
MaxInst == 2       \* DeepgramSTT / GroqLLM instances constructed
MaxCalls == 2      \* streamCompletion requests issued
MaxOffers == 2     \* webrtc_offer messages
MaxSockets == 6    \* WebSocket objects the client constructs

\* ------------------------------------------------------------------ text
Texts == { <<>>, <<" ">>, <<"a", " ">> }      \* recognition results
Contents == { <<>>, <<" ">>, <<"b">> }        \* delta.content of a chunk
Sdps == { "", "v=0" }                         \* offer.sdp
\* message.candidate: missing or not an object, { candidate: '' }, { candidate: text }
Candidates == { "undefined", "empty", "text" }
\* addIceCandidate of the negotiation stack: it is called for a candidate with
\* text only, and adds it or throws
Verdicts(c) == IF c = "text" THEN { "added", "throws" } ELSE { "uncalled" }
\* a payload JSON.parse refuses, 'null' (its destructuring throws), an object
\* without type, an object whose type no case takes
Payloads == { "{", "null", "{}", "{type:bogus}" }
AudioChunks == { <<>>, <<"Q", "Q", "=", "=">> }   \* message.data of an audio_chunk
ChannelData == { 0, 1 }               \* byte length of a data-channel message
ConnectionStates == { "connected", "failed", "disconnected", "closed" }

IsSpace(c) == c = " "

RECURSIVE TrimStart(_)
TrimStart(s) ==
    IF s # <<>> /\ IsSpace(Head(s)) THEN TrimStart(Tail(s)) ELSE s

RECURSIVE TrimEnd(_)
TrimEnd(s) ==
    IF s # <<>> /\ IsSpace(s[Len(s)]) THEN TrimEnd(SubSeq(s, 1, Len(s) - 1)) ELSE s

NoTrim(s) == s

\* String.prototype.trim
Trim(s) == TrimEnd(TrimStart(s))

\* Buffer.from(data, 'base64').length
Base64Bytes(s) == (Cardinality({ i \in DOMAIN s : s[i] # "=" }) * 3) \div 4

\* ------------------------------------------------------------- variables
VARIABLES
    session,        \* the ClientSession object the connection closure holds
    sessions,       \* VoiceAgentServer.sessions: the ids registered
    peers,          \* WebRTCServer.sessions: the ids holding a peer connection
    pcs,            \* the RTCPeerConnection objects created, in order
    stts,           \* the DeepgramSTT instances constructed, in order
    llms,           \* the GroqLLM instances constructed, in order
    calls,          \* the processLLM / streamCompletion invocations, in order
    starts,         \* DeepgramSTT ids whose start() a startConversation awaits
    offers,         \* handleOffer invocations awaiting the negotiation stack
    out,            \* the frames written to the control channel, in order
    env,            \* which API keys the process environment holds
    alive,          \* the server process is running
    signal,         \* the last readiness signal of the transport
    lastEvent,      \* the event the last action handled
    released,       \* the release calls of the last action, in the order made
    run,            \* consecutive interrupt requests: how many, and Len(out) before
    steps,          \* events handled so far
    ws,             \* VoiceAgentClient.ws: the socket it holds, 0 for null
    sockets,        \* readyState of the WebSocket objects the client constructed
    reconnectAttempts,  \* VoiceAgentClient.reconnectAttempts
    timers,         \* pending setTimeout(connect) calls
    scheduled,      \* automatic attempts scheduled since the last open
    refs,           \* App: peerConnectionRef and audioDataChannelRef, and their states
    wait            \* App: the waitForWebRTCConnection call and its timers

serverVars == << session, sessions, peers, pcs, stts, llms, calls, starts, offers, out,
                 env, alive, signal, lastEvent, released, run, steps >>

clientVars == << ws, sockets, reconnectAttempts, timers, scheduled >>

appVars == << refs, wait >>

vars == << serverVars, clientVars, appVars >>

SessionId == 1

SystemTurn == [role |-> "system", content |-> <<"s">>]

Msg(type, text, isFinal, gen, error) ==
    [type |-> type, text |-> text, isFinal |-> isFinal, gen |-> gen, error |-> error]

Event(type, text, isFinal) == [type |-> type, text |-> text, isFinal |-> isFinal]

\* The server state the handlers read and write, as one record.
\* `fault` is set when an exception leaves a callback uncaught or a rejected
\* promise is left unhandled.
World ==
    [session |-> session, sessions |-> sessions, peers |-> peers, pcs |-> pcs,
     stts |-> stts, llms |-> llms, calls |-> calls, starts |-> starts,
     offers |-> offers, out |-> out, fault |-> FALSE, released |-> <<>>]

\* ------------------------------------------------------------- sendMessage
sendMessage_unguarded(w, m) == [w EXCEPT !.out = Append(@, m)]

sendMessage(w, m) ==
    IF w.session.ws = "OPEN" THEN [w EXCEPT !.out = Append(@, m)] ELSE w

sendError(w, error) == sendMessage(w, Msg("error", <<>>, FALSE, 0, error))

\* ----------------------------------------------------------------- GroqLLM
\* stop(); `by` names the caller, kept in the call record of the stream discarded
GroqLLM_stop(w, id, by) ==
    IF w.llms[id].currentStream # 0
    THEN [w EXCEPT !.llms[id].currentStream = 0,
                   !.llms[id].fullResponse = <<>>,
                   !.calls[w.llms[id].currentStream].stopped = by]
    ELSE w

\* A streamCompletion invocation: the instance, where it stands, who discarded its
\* stream, and the history processLLM found before it appended the user turn.
NewCall(id, before) ==
    [llm |-> id, state |-> "creating", stopped |-> "", before |-> before]

\* streamCompletion up to its await of groq.chat.completions.create
streamCompletion(w, id, before) ==
    LET w1 == GroqLLM_stop(w, id, "streamCompletion")
        w2 == [w1 EXCEPT !.llms[id].fullResponse = <<>>]
    IN  IF Len(w2.session.conversationHistory) = 0
        THEN w2
        ELSE [w2 EXCEPT !.calls = Append(@, NewCall(id, before))]

\* ------------------------------------------------------------- DeepgramSTT
audioQueueLimit == 100

\* A release call that fails: connection.finish() or peerConnection.close() throws.
Fails == { "finish", "close" }

\* stop(); a finish() that throws is caught and the connection is dropped all the same
DeepgramSTT_stop(w, id, fail) ==
    IF w.stts[id].connection
    THEN [w EXCEPT !.stts[id].connection = FALSE,
                   !.stts[id].engine =
                       IF fail # "finish" /\ @ \in {"connecting", "open"}
                       THEN "finishing" ELSE @]
    ELSE w

sendAudio_unbounded(w, id, frame) ==
    IF frame.bytes = 0
    THEN w
    ELSE LET w1 == [w EXCEPT !.stts[id].submitted = @ + 1]
             buffer == [from |-> frame.from, bytes |-> frame.bytes,
                        seq |-> w1.stts[id].submitted]
         IN  IF w1.stts[id].isConnectionReady /\ w1.stts[id].connection
             THEN [w1 EXCEPT !.stts[id].sent = Append(@, buffer)]
             ELSE [w1 EXCEPT !.stts[id].audioQueue = Append(@, buffer)]

\* sendAudio(): a frame is where it came from and the length of its buffer; the
\* bridge numbers the non-empty buffers it is handed (seq)
sendAudio(w, id, frame) ==
    IF frame.bytes = 0
    THEN w
    ELSE LET w1 == [w EXCEPT !.stts[id].submitted = @ + 1]
             buffer == [from |-> frame.from, bytes |-> frame.bytes,
                        seq |-> w1.stts[id].submitted]
         IN  IF w1.stts[id].isConnectionReady /\ w1.stts[id].connection
             THEN [w1 EXCEPT !.stts[id].sent = Append(@, buffer)]
             ELSE LET q == Append(w1.stts[id].audioQueue, buffer)
                  IN  [w1 EXCEPT !.stts[id].audioQueue =
                                     IF Len(q) > audioQueueLimit THEN Tail(q) ELSE q]

RECURSIVE Reverse(_)
Reverse(q) == IF q = <<>> THEN <<>> ELSE Append(Reverse(Tail(q)), Head(q))

onOpen_newestFirst(w, s) ==
    LET w1 == [w EXCEPT !.stts[s].isConnectionReady = TRUE,
                        !.stts[s].engine = IF @ = "connecting" THEN "open" ELSE @]
        w2 == [w1 EXCEPT !.stts[s].sent = @ \o Reverse(w1.stts[s].audioQueue),
                         !.stts[s].audioQueue = <<>>]
    IN  IF w.stts[s].audioQueue # <<>> /\ ~w.stts[s].connection
        THEN [w1 EXCEPT !.stts[s].audioQueue = SubSeq(@, 1, Len(@) - 1), !.fault = TRUE]
        ELSE w2

\* the handler of LiveTranscriptionEvents.Open, up to resolve(): the queue is
\* drained from its head; with this.connection null the send of the first frame
\* throws, after the frame left the queue
onOpen(w, s) ==
    LET w1 == [w EXCEPT !.stts[s].isConnectionReady = TRUE,
                        !.stts[s].engine = IF @ = "connecting" THEN "open" ELSE @]
        w2 == [w1 EXCEPT !.stts[s].sent = @ \o w1.stts[s].audioQueue,
                         !.stts[s].audioQueue = <<>>]
    IN  IF w.stts[s].audioQueue # <<>> /\ ~w.stts[s].connection
        THEN [w1 EXCEPT !.stts[s].audioQueue = Tail(@), !.fault = TRUE]
        ELSE w2

\* ------------------------------------------------------------ WebRTCServer
\* a peer connection: whether close() returned, whether close() threw, the
\* state of its 'audio' data channel and the remote candidates it was added
NewPeer == [closed |-> FALSE, threw |-> FALSE, channel |-> "none", candidates |-> 0]

\* the peer connection the registry holds for the session: the last one created
Registered(w) == Len(w.pcs)

\* cleanup() throws when peerConnection.close() does
WebRTC_cleanupThrows(w, id, fail) == id \in w.peers /\ fail = "close"

WebRTC_cleanup_keepsEntry(w, id, fail) ==
    IF id \notin w.peers
    THEN w
    ELSE IF fail = "close"
         THEN [w EXCEPT !.pcs[Registered(w)].threw = TRUE]
         ELSE [w EXCEPT !.pcs[Registered(w)].closed = TRUE]

\* cleanup()
WebRTC_cleanup(w, id, fail) ==
    IF id \notin w.peers
    THEN w
    ELSE IF fail = "close"
         THEN [w EXCEPT !.pcs[Registered(w)].threw = TRUE]
         ELSE [w EXCEPT !.pcs[Registered(w)].closed = TRUE, !.peers = @ \ {id}]

\* handleOffer when it creates a peer whatever the registry holds
handleOffer_alwaysCreates(w, id, sdp) ==
    [w EXCEPT !.pcs = Append(@, NewPeer), !.peers = @ \cup {id},
              !.offers = Append(@, sdp)]

\* handleOffer up to the first await on the negotiation stack: the peer the
\* registry holds is reused, or one is created and registered
handleOffer(w, id, sdp) ==
    LET w1 == IF id \in w.peers
              THEN w
              ELSE [w EXCEPT !.pcs = Append(@, NewPeer), !.peers = @ \cup {id}]
    IN  [w1 EXCEPT !.offers = Append(@, sdp)]

\* handleIceCandidate(): the rejection of addIceCandidate is caught and logged
handleIceCandidate(w, id, c, verdict) ==
    IF id \notin w.peers
    THEN w
    ELSE IF c = "text" /\ verdict = "added"
         THEN [w EXCEPT !.pcs[Registered(w)].candidates = @ + 1]
         ELSE w

\* -------------------------------------------------------- VoiceAgentServer
\* the promise of cleanupSession is rejected
cleanupSessionRejects(w, id, fail) ==
    id \in w.sessions /\ WebRTC_cleanupThrows(w, id, fail)

\* cleanupSession(); each release call it makes is noted in `released`
cleanupSession(w, id, fail) ==
    IF id \notin w.sessions
    THEN w
    ELSE LET w1 == [w EXCEPT !.session.isActive = FALSE]
             w2 == [WebRTC_cleanup(w1, id, fail)
                        EXCEPT !.released = Append(@, "webrtcServer")]
             w3 == IF w2.session.deepgramSTT # 0
                   THEN [DeepgramSTT_stop(w2, w2.session.deepgramSTT, fail)
                             EXCEPT !.released = Append(@, "deepgramSTT")]
                   ELSE w2
             w4 == IF w3.session.groqLLM # 0
                   THEN [GroqLLM_stop(w3, w3.session.groqLLM, "cleanupSession")
                             EXCEPT !.released = Append(@, "groqLLM")]
                   ELSE w3
         IN  IF WebRTC_cleanupThrows(w1, id, fail)
             THEN w2
             ELSE [w4 EXCEPT !.sessions = @ \ {id}]

\* a cleanupSession whose promise nobody awaits
cleanupSessionDetached(w, id, fail) ==
    [cleanupSession(w, id, fail) EXCEPT !.fault = cleanupSessionRejects(w, id, fail)]

processLLM(w, transcript) ==
    IF w.session.groqLLM = 0 \/ ~w.session.isActive \/ Trim(transcript) = <<>>
    THEN w
    ELSE LET w1 == [w EXCEPT !.session.conversationHistory =
                        Append(@, [role |-> "user", content |-> Trim(transcript)])]
         IN  streamCompletion(w1, w1.session.groqLLM, w.session.conversationHistory)

\* session.deepgramSTT.onTranscript
onTranscript(w, transcript, isFinal) ==
    LET w1 == sendMessage(w, Msg("stt_transcript", transcript, isFinal, 0, ""))
    IN  IF isFinal /\ Trim(transcript) # <<>> THEN processLLM(w1, transcript) ELSE w1

\* session.groqLLM.onToken
onToken(w, token, gen) == sendMessage(w, Msg("llm_token", token, FALSE, gen, ""))

\* session.groqLLM.onComplete
onComplete(w, fullResponse, gen) ==
    LET w1 == IF Trim(fullResponse) # <<>>
              THEN [w EXCEPT !.session.conversationHistory =
                        Append(@, [role |-> "assistant", content |-> Trim(fullResponse)])]
              ELSE w
        w2 == sendMessage(w1, Msg("llm_complete", fullResponse, FALSE, gen, ""))
    IN  IF Trim(fullResponse) # <<>>
        THEN sendMessage(w2, Msg("tts_text", fullResponse, FALSE, gen, ""))
        ELSE w2

streamEnded_always(w, c) ==
    LET id == w.calls[c].llm
        w1 == [w EXCEPT !.calls[c].state = "done"]
    IN  [onComplete(w1, w1.llms[id].fullResponse, c) EXCEPT !.llms[id].currentStream = 0]

\* streamCompletion after its for-await loop: onComplete is called with the
\* buffer of the instance when the buffer has text after trimming
streamEnded(w, c) ==
    LET id == w.calls[c].llm
        w1 == [w EXCEPT !.calls[c].state = "done"]
        w2 == IF Trim(w1.llms[id].fullResponse) # <<>>
              THEN onComplete(w1, w1.llms[id].fullResponse, c)
              ELSE w1
    IN  [w2 EXCEPT !.llms[id].currentStream = 0]

handleInterrupt_onlyWhenStreaming(w) ==
    IF w.session.groqLLM # 0 /\ w.llms[w.session.groqLLM].currentStream # 0
    THEN sendMessage(GroqLLM_stop(w, w.session.groqLLM, "handleInterrupt"),
                     Msg("interrupted", <<>>, FALSE, 0, ""))
    ELSE w

handleInterrupt_dropsTurn(w) ==
    LET w1 == IF w.session.groqLLM # 0
              THEN GroqLLM_stop(w, w.session.groqLLM, "handleInterrupt") ELSE w
        h == w1.session.conversationHistory
        w2 == IF Len(h) > 1
              THEN [w1 EXCEPT !.session.conversationHistory = SubSeq(h, 1, Len(h) - 1)]
              ELSE w1
    IN  sendMessage(w2, Msg("interrupted", <<>>, FALSE, 0, ""))

handleInterrupt(w) ==
    LET w1 == IF w.session.groqLLM # 0
              THEN GroqLLM_stop(w, w.session.groqLLM, "handleInterrupt") ELSE w
    IN  sendMessage(w1, Msg("interrupted", <<>>, FALSE, 0, ""))

\* a rejected cleanupSession is caught by the message handler of the connection
stopConversation(w, fail) ==
    IF ~w.session.isActive
    THEN w
    ELSE IF cleanupSessionRejects(w, SessionId, fail)
         THEN sendError(cleanupSession(w, SessionId, fail), "Invalid message format")
         ELSE sendMessage(cleanupSession(w, SessionId, fail),
                          Msg("conversation_stopped", <<>>, FALSE, 0, ""))

\* the catch block of startConversation
startFailed(w, fail) ==
    cleanupSessionDetached(sendError(w, "Failed to start conversation"), SessionId, fail)

NewSTT ==
    [engine |-> "none", connection |-> FALSE, isConnectionReady |-> FALSE,
     audioQueue |-> <<>>, sent |-> <<>>, submitted |-> 0]
NewLLM == [currentStream |-> 0, fullResponse |-> <<>>]

\* startConversation up to its await of deepgramSTT.start(); e is the environment,
\* live is whether deepgram.listen.live() returns or throws
startConversation(w, e, live, fail) ==
    IF w.session.isActive
    THEN w
    ELSE LET w1 == [w EXCEPT !.session.conversationHistory = << SystemTurn >>]
         IN  IF e = "noDeepgramKey"
             THEN startFailed(w1, fail)
             ELSE LET w2 == [w1 EXCEPT !.stts = Append(@, NewSTT),
                                       !.session.deepgramSTT = Len(w1.stts) + 1]
                  IN  IF e = "noGroqKey"
                      THEN startFailed(w2, fail)
                      ELSE LET s == w2.session.deepgramSTT
                               w3 == [w2 EXCEPT !.llms = Append(@, NewLLM),
                                                !.session.groqLLM = Len(w2.llms) + 1]
                           IN  IF live = "throws"
                               THEN startFailed(w3, fail)
                               ELSE [w3 EXCEPT !.stts[s].engine = "connecting",
                                               !.stts[s].connection = TRUE,
                                               !.starts = @ \cup {s}]

\* startConversation after deepgramSTT.start() resolved
startResolved(w, s) ==
    LET w1 == [w EXCEPT !.starts = @ \ {s}, !.session.isActive = TRUE]
    IN  sendMessage(w1, Msg("conversation_started", <<>>, FALSE, 0, ""))

\* the handler of Open with the continuation of the startConversation that
\* awaits start(): resolve() is reached when the drain did not throw
onOpenResolved(w, s) ==
    LET w1 == onOpen(w, s)
    IN  IF ~w1.fault /\ s \in w1.starts THEN startResolved(w1, s) ELSE w1

handleWebRTCOffer(w, sdp) ==
    handleOffer([w EXCEPT !.session.useWebRTC = "true"], SessionId, sdp)

handleWebRTCIceCandidate_reports(w, c, verdict) ==
    IF c # "text"
    THEN w
    ELSE IF SessionId \in w.peers /\ verdict = "throws"
         THEN sendError(w, "WebRTC setup error")
         ELSE handleIceCandidate(w, SessionId, c, verdict)

\* handleWebRTCIceCandidate(): candidate?.candidate is falsy for a missing
\* candidate, for one that is not an object, and for an empty string
handleWebRTCIceCandidate(w, c, verdict) ==
    IF c # "text" THEN w ELSE handleIceCandidate(w, SessionId, c, verdict)

onMessageDropped_closes(w, data) ==
    IF data \in {"{", "null"}
    THEN cleanupSession([w EXCEPT !.session.ws = "CLOSED"], SessionId, "none")
    ELSE w

\* ws.on('message') for a payload no case of handleMessage takes: JSON.parse or
\* the destructuring of message throws into the catch block, or the switch ends
\* without a match
onMessageDropped(w, data) ==
    IF data \in {"{", "null"} THEN sendError(w, "Invalid message format") ELSE w

handleAudioChunk_always(w, data) ==
    IF w.session.isActive /\ w.session.deepgramSTT # 0
    THEN sendAudio(w, w.session.deepgramSTT,
                   [from |-> "control", bytes |-> Base64Bytes(data)])
    ELSE w

\* handleMessage, case 'audio_chunk'
handleAudioChunk(w, data) ==
    IF w.session.isActive /\ w.session.deepgramSTT # 0 /\ w.session.useWebRTC # "true"
    THEN sendAudio(w, w.session.deepgramSTT,
                   [from |-> "control", bytes |-> Base64Bytes(data)])
    ELSE w

\* webrtcServer.on('connectionStateChange')
onConnectionStateChange(w, id, state) ==
    IF id \in w.sessions
    THEN [w EXCEPT !.session.useWebRTC = IF state = "connected" THEN "true" ELSE "false"]
    ELSE w

\* webrtcServer.on('iceConnectionFailed')
onIceConnectionFailed(w, id) ==
    IF id \in w.sessions THEN [w EXCEPT !.session.useWebRTC = "false"] ELSE w

\* webrtcServer.on('iceCandidate')
onIceCandidate(w, id) ==
    IF id \in w.sessions /\ w.session.ws = "OPEN"
    THEN sendMessage(w, Msg("webrtc_ice_candidate", <<>>, FALSE, 0, ""))
    ELSE w

\* webrtcServer.on('audioData')
onAudioData(w, id, bytes) ==
    IF /\ id \in w.sessions
       /\ w.session.deepgramSTT # 0
       /\ w.session.isActive
       /\ w.session.useWebRTC # "false"
    THEN LET w1 == sendAudio(w, w.session.deepgramSTT,
                             [from |-> "transport", bytes |-> bytes])
         IN  IF w1.session.useWebRTC # "true"
             THEN [w1 EXCEPT !.session.useWebRTC = "true"]
             ELSE w1
    ELSE w

\* webrtcServer.on('dataChannelOpen')
onDataChannelOpen(w, id) ==
    IF id \in w.sessions THEN [w EXCEPT !.session.useWebRTC = "true"] ELSE w

\* webrtcServer.on('dataChannelClose')
onDataChannelClose(w, id) ==
    IF id \in w.sessions THEN [w EXCEPT !.session.useWebRTC = "false"] ELSE w

processLLMFailed_teardown(w) ==
    cleanupSession(sendError(w, "Groq LLM error"), SessionId, "none")

\* the catch block of processLLM
processLLMFailed(w) ==
    LET h == w.session.conversationHistory
        w1 == IF Len(h) > 0 /\ h[Len(h)].role = "user"
              THEN [w EXCEPT !.session.conversationHistory = SubSeq(h, 1, Len(h) - 1)]
              ELSE w
    IN  sendError(w1, "Groq LLM error")

\* -------------------------------------------------------------- the steps
\* the event a connectionStateChange of the peer connection is recorded as
StateEvent(state) ==
    [connected |-> "connection_connected", failed |-> "connection_failed",
     disconnected |-> "connection_disconnected", closed |-> "connection_closed"][state]

\* the events by which the transport announces that it is ready, or that it failed
ReadySignals == { "connection_connected", "data_channel_open" }
FailureSignals == { "connection_failed", "connection_disconnected", "connection_closed",
                    "ice_failed", "data_channel_close" }

\* an uncaught exception or an unhandled rejection ends the process or not,
\* depending on the runtime
Apply(w, ev) ==
    /\ session' = w.session
    /\ sessions' = w.sessions
    /\ peers' = w.peers
    /\ pcs' = w.pcs
    /\ stts' = w.stts
    /\ llms' = w.llms
    /\ calls' = w.calls
    /\ starts' = w.starts
    /\ offers' = w.offers
    /\ out' = w.out
    /\ lastEvent' = ev
    /\ released' = w.released
    /\ run' = IF ev.type = "interrupt"
              THEN [n |-> run.n + 1, from |-> IF run.n = 0 THEN Len(out) ELSE run.from]
              ELSE [n |-> 0, from |-> 0]
    /\ steps' = steps + 1
    /\ alive' \in (IF w.fault THEN BOOLEAN ELSE {TRUE})
    /\ signal' = IF ev.type \in ReadySignals THEN "ready"
                 ELSE IF ev.type \in FailureSignals THEN "failed"
                 ELSE signal
    /\ UNCHANGED << env, clientVars, appVars >>

Budget == alive /\ steps < MaxSteps

\* the server after wss.on('connection') for its one peer
NewWorld ==
    [session |-> [ws |-> "OPEN", isActive |-> FALSE, conversationHistory |-> <<>>,
                  useWebRTC |-> "undefined", deepgramSTT |-> 0, groqLLM |-> 0],
     sessions |-> {SessionId}, peers |-> {}, pcs |-> <<>>, stts |-> <<>>,
     llms |-> <<>>, calls |-> <<>>, starts |-> {}, offers |-> <<>>,
     out |-> << Msg("session_ready", <<>>, FALSE, 0, "") >>, fault |-> FALSE,
     released |-> <<>>]

\* the variables the handlers write hold the world w
Holds(w) ==
    /\ session = w.session
    /\ sessions = w.sessions
    /\ peers = w.peers
    /\ pcs = w.pcs
    /\ stts = w.stts
    /\ llms = w.llms
    /\ calls = w.calls
    /\ starts = w.starts
    /\ offers = w.offers
    /\ out = w.out

InitServer ==
    /\ Holds(NewWorld)
    /\ env \in {"ok", "noDeepgramKey", "noGroqKey"}
    /\ alive = TRUE
    /\ signal = "none"
    /\ lastEvent = Event("connection", <<>>, FALSE)
    /\ released = <<>>
    /\ run = [n |-> 0, from |-> 0]
    /\ steps = 0

\* the client after its constructor
InitClient ==
    /\ ws = 0
    /\ sockets = <<>>
    /\ reconnectAttempts = 0
    /\ timers = <<>>
    /\ scheduled = 0

\* the App component after its first render: both refs null, no wait started
InitApp ==
    /\ refs = [pc |-> FALSE, connectionState |-> "new", iceConnectionState |-> "new",
               dc |-> FALSE, readyState |-> "connecting"]
    /\ wait = [promise |-> "none", resolved |-> FALSE, checkInterval |-> FALSE,
               timeoutId |-> FALSE, due |-> 0, now |-> 0, resolves |-> 0]

Init == InitServer /\ InitClient /\ InitApp

\* ws.on('message'): start_conversation
MsgStartConversation ==
    /\ Budget
    /\ session.ws = "OPEN"
    /\ LET w == startConversation(World, env, "ok", "none")
       IN  /\ Len(w.stts) <= MaxInst
           /\ Apply(w, Event("start_conversation", <<>>, FALSE))

\* start_conversation, when deepgram.listen.live() throws
MsgStartConversationThrows ==
    /\ Budget
    /\ session.ws = "OPEN"
    /\ \E fail \in {"none"} \cup Fails :
         LET w == startConversation(World, env, "throws", fail)
         IN  /\ Len(w.stts) <= MaxInst
             /\ Apply(w, Event("start_conversation", <<>>, FALSE))

\* ws.on('message'): stop_conversation
MsgStopConversation ==
    /\ Budget
    /\ session.ws = "OPEN"
    /\ Apply(stopConversation(World, "none"), Event("stop_conversation", <<>>, FALSE))

\* stop_conversation, when a release call throws
MsgStopConversationThrows ==
    /\ Budget
    /\ session.ws = "OPEN"
    /\ \E fail \in Fails :
         Apply(stopConversation(World, fail), Event("stop_conversation", <<>>, FALSE))

\* ws.on('message'): audio_chunk
MsgAudioChunk ==
    /\ Budget
    /\ session.ws = "OPEN"
    /\ \E data \in AudioChunks :
         Apply(handleAudioChunk(World, data), Event("audio_chunk", data, FALSE))

\* ws.on('message'): interrupt
MsgInterrupt ==
    /\ Budget
    /\ session.ws = "OPEN"
    /\ Apply(handleInterrupt(World), Event("interrupt", <<>>, FALSE))

\* ws.on('message'): webrtc_offer
MsgWebRTCOffer ==
    /\ Budget
    /\ session.ws = "OPEN"
    /\ Len(offers) < MaxOffers
    /\ \E sdp \in Sdps :
         Apply(handleWebRTCOffer(World, sdp), Event("webrtc_offer", <<>>, FALSE))

\* ws.on('error'): the socket is closing when the event is raised
WsError ==
    /\ Budget
    /\ session.ws = "OPEN"
    /\ \E fail \in {"none"} \cup Fails :
         Apply(cleanupSessionDetached([World EXCEPT !.session.ws = "CLOSING"],
                                      SessionId, fail),
               Event("error", <<>>, FALSE))

\* ws.on('close')
WsClose ==
    /\ Budget
    /\ session.ws \in {"OPEN", "CLOSING"}
    /\ Apply(cleanupSessionDetached([World EXCEPT !.session.ws = "CLOSED"],
                                    SessionId, "none"),
             Event("close", <<>>, FALSE))

\* ws.on('close'), when a release call throws
WsCloseThrows ==
    /\ Budget
    /\ session.ws \in {"OPEN", "CLOSING"}
    /\ \E fail \in Fails :
         Apply(cleanupSessionDetached([World EXCEPT !.session.ws = "CLOSED"],
                                      SessionId, fail),
               Event("close", <<>>, FALSE))

\* LiveTranscriptionEvents.Open of instance s
STTOpen ==
    /\ Budget
    /\ \E s \in DOMAIN stts :
         /\ stts[s].engine \in {"connecting", "finishing"}
         /\ ~stts[s].isConnectionReady
         /\ Apply(onOpenResolved(World, s), Event("stt_open", <<>>, FALSE))

\* LiveTranscriptionEvents.Transcript of instance s
STTTranscript ==
    /\ Budget
    /\ \E s \in DOMAIN stts, transcript \in Texts, isFinal \in BOOLEAN :
         /\ stts[s].isConnectionReady
         /\ stts[s].engine \in {"open", "finishing"}
         /\ LET w == IF transcript # <<>> /\ Trim(transcript) # <<>>
                     THEN onTranscript(World, transcript, isFinal)
                     ELSE World
            IN  /\ Len(w.calls) <= MaxCalls
                /\ Apply(w, Event("transcript", transcript, isFinal))

\* LiveTranscriptionEvents.Error of instance s: emit('error') has no listener and
\* throws, so reject is not reached
STTError ==
    /\ Budget
    /\ \E s \in DOMAIN stts :
         /\ stts[s].engine \in {"connecting", "open", "finishing"}
         /\ Apply([World EXCEPT !.stts[s].isConnectionReady = FALSE, !.fault = TRUE],
                  Event("stt_error", <<>>, FALSE))

\* LiveTranscriptionEvents.Close of instance s
STTClose ==
    /\ Budget
    /\ \E s \in DOMAIN stts :
         /\ stts[s].engine \in {"connecting", "open", "finishing"}
         /\ Apply([World EXCEPT !.stts[s].isConnectionReady = FALSE,
                                !.stts[s].engine = "closed"],
                  Event("stt_close", <<>>, FALSE))

\* groq.chat.completions.create resolved for call c
LLMCreated ==
    /\ Budget
    /\ \E c \in DOMAIN calls :
         /\ calls[c].state = "creating"
         /\ Apply([World EXCEPT !.calls[c].state = "streaming",
                                !.llms[calls[c].llm].currentStream = c],
                  Event("llm_stream", <<>>, FALSE))

\* one iteration of the for-await loop of call c
LLMChunk ==
    /\ Budget
    /\ \E c \in DOMAIN calls, content \in Contents :
         /\ calls[c].state = "streaming"
         /\ LET id == calls[c].llm
                w == IF content # <<>>
                     THEN onToken([World EXCEPT !.llms[id].fullResponse = @ \o content],
                                  content, c)
                     ELSE World
            IN  Apply(w, Event("llm_chunk", content, FALSE))

\* the stream of call c ended: the code after the loop
LLMEnd ==
    /\ Budget
    /\ \E c \in DOMAIN calls :
         /\ calls[c].state = "streaming"
         /\ Apply(streamEnded(World, c), Event("llm_end", <<>>, FALSE))

\* create or the stream of call c threw: the catch blocks of streamCompletion
\* and processLLM
LLMFail ==
    /\ Budget
    /\ \E c \in DOMAIN calls :
         /\ calls[c].state \in {"creating", "streaming"}
         /\ Apply(processLLMFailed([World EXCEPT !.calls[c].state = "failed"]),
                  Event("llm_error", <<>>, FALSE))

\* the negotiation stack answered the oldest pending offer
OfferAnswered ==
    /\ Budget
    /\ offers # <<>>
    /\ Apply(sendMessage([World EXCEPT !.offers = Tail(@)],
                         Msg("webrtc_answer", <<>>, FALSE, 0, "")),
             Event("offer_answered", <<>>, FALSE))

\* the negotiation stack rejected the oldest pending offer
OfferRejected ==
    /\ Budget
    /\ offers # <<>>
    /\ Apply(sendError([World EXCEPT !.offers = Tail(@)], "WebRTC setup error"),
             Event("offer_rejected", <<>>, FALSE))

\* pc.connectionStateChange of peer connection p
TransportConnectionState ==
    /\ Budget
    /\ \E p \in DOMAIN pcs, state \in ConnectionStates :
         /\ ~pcs[p].closed
         /\ Apply(onConnectionStateChange(World, SessionId, state),
                  Event(StateEvent(state), <<>>, FALSE))

\* pc.iceConnectionStateChange of peer connection p, state 'failed'
TransportIceFailed ==
    /\ Budget
    /\ \E p \in DOMAIN pcs :
         /\ ~pcs[p].closed
         /\ Apply(onIceConnectionFailed(World, SessionId), Event("ice_failed", <<>>, FALSE))

\* pc.onIceCandidate of peer connection p
TransportIceCandidate ==
    /\ Budget
    /\ \E p \in DOMAIN pcs :
         /\ ~pcs[p].closed
         /\ Apply(onIceCandidate(World, SessionId), Event("ice_candidate", <<>>, FALSE))

\* the 'audio' data channel of peer connection p opened
TransportDataChannelOpen ==
    /\ Budget
    /\ \E p \in DOMAIN pcs :
         /\ ~pcs[p].closed
         /\ pcs[p].channel # "open"
         /\ Apply(onDataChannelOpen([World EXCEPT !.pcs[p].channel = "open"], SessionId),
                  Event("data_channel_open", <<>>, FALSE))

\* the 'audio' data channel of peer connection p closed
TransportDataChannelClose ==
    /\ Budget
    /\ \E p \in DOMAIN pcs :
         /\ pcs[p].channel = "open"
         /\ Apply(onDataChannelClose([World EXCEPT !.pcs[p].channel = "closed"], SessionId),
                  Event("data_channel_close", <<>>, FALSE))

\* a message on the 'audio' data channel of peer connection p
TransportAudioData ==
    /\ Budget
    /\ \E p \in DOMAIN pcs, bytes \in ChannelData :
         /\ ~pcs[p].closed
         /\ pcs[p].channel = "open"
         /\ Apply(onAudioData(World, SessionId, bytes),
                  Event("audio_data", <<>>, FALSE))

\* ws.on('message'): webrtc_ice_candidate
MsgWebRTCIceCandidate ==
    /\ Budget
    /\ session.ws = "OPEN"
    /\ \E c \in Candidates : \E verdict \in Verdicts(c) :
         Apply(handleWebRTCIceCandidate(World, c, verdict),
               Event("webrtc_ice_candidate", << c, verdict >>, FALSE))

\* ws.on('message'): a payload that is not JSON, or not a message with a known type
MsgDropped ==
    /\ Budget
    /\ session.ws = "OPEN"
    /\ \E data \in Payloads :
         Apply(onMessageDropped(World, data), Event("message", << data >>, FALSE))

\* a call of webrtcServer.handleOffer
NegotiatorHandleOffer ==
    /\ Budget
    /\ Len(offers) < MaxOffers
    /\ \E sdp \in Sdps :
         Apply(handleOffer(World, SessionId, sdp), Event("handleOffer", <<>>, FALSE))

\* the negotiation stack answered or rejected the oldest pending offer
NegotiatorOfferSettled ==
    /\ Budget
    /\ offers # <<>>
    /\ Apply([World EXCEPT !.offers = Tail(@)], Event("offer_settled", <<>>, FALSE))

\* a call of webrtcServer.handleIceCandidate
NegotiatorHandleIceCandidate ==
    /\ Budget
    /\ \E c \in Candidates : \E verdict \in Verdicts(c) :
         Apply(handleIceCandidate(World, SessionId, c, verdict),
               Event("handleIceCandidate", << c, verdict >>, FALSE))

\* a call of webrtcServer.cleanup; the event keeps whether the registry held the
\* id and whether peerConnection.close() would throw
NegotiatorCleanup ==
    /\ Budget
    /\ \E fail \in {"none", "close"} :
         Apply([WebRTC_cleanup(World, SessionId, fail)
                    EXCEPT !.fault = WebRTC_cleanupThrows(World, SessionId, fail)],
               Event("cleanup",
                     << IF SessionId \in peers THEN "registered" ELSE "unknown", fail >>,
                     FALSE))

\* The conversation: control messages, recognition events, generation events.
Next ==
    \/ MsgStartConversation
    \/ MsgStopConversation
    \/ MsgInterrupt
    \/ MsgWebRTCOffer
    \/ WsClose
    \/ STTOpen
    \/ STTTranscript
    \/ STTClose
    \/ LLMCreated
    \/ LLMChunk
    \/ LLMEnd
    \/ LLMFail
    \/ OfferAnswered
    \/ OfferRejected

Spec == Init /\ [][Next]_vars

\* Audio ingest: control messages, audio frames from both sources, transport
\* events.  The handlers of audio frames and transport events read and write
\* the active flag, the bridge, useWebRTC and the registries; they touch neither
\* the history nor the response pipeline, whose events are left to Next.
NextIngest ==
    \/ MsgStartConversation
    \/ MsgStopConversation
    \/ MsgAudioChunk
    \/ MsgWebRTCOffer
    \/ WsClose
    \/ STTOpen
    \/ OfferAnswered
    \/ OfferRejected
    \/ TransportConnectionState
    \/ TransportIceFailed
    \/ TransportIceCandidate
    \/ TransportDataChannelOpen
    \/ TransportDataChannelClose
    \/ TransportAudioData

SpecIngest == Init /\ [][NextIngest]_vars

\* Failures of the components: control messages, the events of the recognition
\* connection and of the control channel, and the calls on collaborators that
\* throw (listen.live, finish, close).
NextFailure ==
    \/ MsgStartConversation
    \/ MsgStartConversationThrows
    \/ MsgStopConversation
    \/ MsgStopConversationThrows
    \/ MsgInterrupt
    \/ MsgWebRTCOffer
    \/ WsError
    \/ WsClose
    \/ WsCloseThrows
    \/ STTOpen
    \/ STTError
    \/ STTClose
    \/ OfferAnswered
    \/ OfferRejected

SpecFailure == Init /\ [][NextFailure]_vars

\* Signalling and protocol: control messages, among them remote candidates and
\* payloads that no case takes, and the answers of the negotiation stack.
NextSignal ==
    \/ MsgStartConversation
    \/ MsgStopConversation
    \/ MsgWebRTCOffer
    \/ MsgWebRTCIceCandidate
    \/ MsgDropped
    \/ STTOpen
    \/ OfferAnswered
    \/ OfferRejected

SpecSignal == Init /\ [][NextSignal]_vars

\* The transport negotiator as the coordinator drives it: the three methods
\* index.ts calls, in any order.
NextNegotiator ==
    \/ NegotiatorHandleOffer
    \/ NegotiatorOfferSettled
    \/ NegotiatorHandleIceCandidate
    \/ NegotiatorCleanup

\* the negotiator after its construction, with no peer
InitNegotiator == Init /\ env = "ok"

SpecNegotiator == InitNegotiator /\ [][NextNegotiator]_vars

\* Generation: a session that is active (start_conversation, then the Open of
\* its bridge), the final and interim results of the engine and the events of
\* the completion streams.
InitGeneration ==
    /\ Holds(onOpenResolved(startConversation(NewWorld, "ok", "ok", "none"), 1))
    /\ env = "ok"
    /\ alive = TRUE
    /\ signal = "none"
    /\ lastEvent = Event("stt_open", <<>>, FALSE)
    /\ released = <<>>
    /\ run = [n |-> 0, from |-> 0]
    /\ steps = 0
    /\ InitClient
    /\ InitApp

NextGeneration ==
    \/ STTTranscript
    \/ LLMCreated
    \/ LLMChunk
    \/ LLMEnd

SpecGeneration == InitGeneration /\ [][NextGeneration]_vars

\* The pre-ready queue of the recognition bridge.  A bridge queues only while the
\* session is active and its bridge is not ready: a second start_conversation
\* arrived while the first waited, the first bridge opened, and the session
\* holds the second one, still connecting.  From there the peer has sent n
\* non-empty audio chunks, up to the capacity of the queue.
Overlapping ==
    onOpenResolved(startConversation(startConversation(NewWorld, "ok", "ok", "none"),
                                     "ok", "ok", "none"), 1)

\* what n <= audioQueueLimit calls of handleAudioChunk with a one-byte chunk leave
\* in a session that is active, off the transport, with an empty bridge not ready
Chunks(w, n) ==
    [w EXCEPT !.stts[w.session.deepgramSTT].submitted = n,
              !.stts[w.session.deepgramSTT].audioQueue =
                  [i \in 1..n |-> [from |-> "control", bytes |-> 1, seq |-> i]]]

QueueFills == { 0, 1, audioQueueLimit - 1, audioQueueLimit }

InitQueue ==
    /\ \E n \in QueueFills : Holds(Chunks(Overlapping, n))
    /\ env = "ok"
    /\ alive = TRUE
    /\ signal = "none"
    /\ lastEvent = Event("connection", <<>>, FALSE)
    /\ released = <<>>
    /\ run = [n |-> 0, from |-> 0]
    /\ steps = 0
    /\ InitClient
    /\ InitApp

NextQueue ==
    \/ MsgAudioChunk
    \/ MsgStopConversation
    \/ STTOpen
    \/ STTClose

SpecQueue == InitQueue /\ [][NextQueue]_vars

\* -------------------------------------------------------- VoiceAgentClient
maxReconnectAttempts == 5
reconnectDelay == 1000

\* The client state its methods read and write, as one record.
Client ==
    [ws |-> ws, sockets |-> sockets, reconnectAttempts |-> reconnectAttempts,
     timers |-> timers, scheduled |-> scheduled]

Remove(seq, k) == SubSeq(seq, 1, k - 1) \o SubSeq(seq, k + 1, Len(seq))

\* connect(): a new WebSocket, whose handlers are bound to the client
connect(c) ==
    [c EXCEPT !.sockets = Append(@, "CONNECTING"), !.ws = Len(c.sockets) + 1]

attemptReconnect_sameDelay(c) ==
    IF c.reconnectAttempts < maxReconnectAttempts
    THEN [c EXCEPT !.reconnectAttempts = @ + 1,
                   !.scheduled = @ + 1,
                   !.timers = Append(@, [delay |-> reconnectDelay,
                                         n |-> c.scheduled + 1])]
    ELSE c

attemptReconnect_oneMore(c) ==
    IF c.reconnectAttempts <= maxReconnectAttempts
    THEN [c EXCEPT !.reconnectAttempts = @ + 1,
                   !.scheduled = @ + 1,
                   !.timers = Append(@, [delay |-> reconnectDelay * (c.reconnectAttempts + 1),
                                         n |-> c.scheduled + 1])]
    ELSE c

\* attemptReconnect(); a timer keeps its delay and which automatic attempt since
\* the last open it is
attemptReconnect(c) ==
    IF c.reconnectAttempts < maxReconnectAttempts
    THEN [c EXCEPT !.reconnectAttempts = @ + 1,
                   !.scheduled = @ + 1,
                   !.timers = Append(@, [delay |-> reconnectDelay * (c.reconnectAttempts + 1),
                                         n |-> c.scheduled + 1])]
    ELSE c

\* ws.onopen
onopen(c, i) ==
    [c EXCEPT !.sockets[i] = "OPEN", !.reconnectAttempts = 0, !.scheduled = 0]

\* ws.onclose
onclose(c, i) == attemptReconnect([c EXCEPT !.sockets[i] = "CLOSED"])

\* disconnect()
disconnect(c) ==
    IF c.ws # 0
    THEN [c EXCEPT !.sockets[c.ws] = IF @ = "CLOSED" THEN @ ELSE "CLOSING", !.ws = 0]
    ELSE c

ApplyClient(c) ==
    /\ ws' = c.ws
    /\ sockets' = c.sockets
    /\ reconnectAttempts' = c.reconnectAttempts
    /\ timers' = c.timers
    /\ scheduled' = c.scheduled
    /\ UNCHANGED << serverVars, appVars >>

\* the application calls connect()
AppConnect ==
    /\ Len(sockets) < MaxSockets
    /\ ApplyClient(connect(Client))

\* the application calls disconnect()
AppDisconnect ==
    /\ ws # 0
    /\ ApplyClient(disconnect(Client))

\* the open event of socket i
SocketOpen ==
    \E i \in DOMAIN sockets :
        /\ sockets[i] = "CONNECTING"
        /\ ApplyClient(onopen(Client, i))

\* the close event of socket i
SocketClose ==
    \E i \in DOMAIN sockets :
        /\ sockets[i] # "CLOSED"
        /\ ApplyClient(onclose(Client, i))

\* a reconnect timer expires: the callback calls connect()
TimerFires ==
    \E k \in DOMAIN timers :
        /\ Len(sockets) < MaxSockets
        /\ ApplyClient(connect([Client EXCEPT !.timers = Remove(@, k)]))

NextClient ==
    \/ AppConnect
    \/ AppDisconnect
    \/ SocketOpen
    \/ SocketClose
    \/ TimerFires

\* the client alone, with the server as its constructor left it
InitOfClient == Init /\ env = "ok"

SpecClient == InitOfClient /\ [][NextClient]_vars

\* ---------------------------------------------------- transport readiness
\* waitForWebRTCConnection(10000) in the conversation_started handler, and the
\* period of its setInterval
timeoutMs == 10000
checkIntervalMs == 500

\* the clock of a wait counts periods of the interval
Deadline == timeoutMs \div checkIntervalMs

\* connectionState and iceConnectionState of an RTCPeerConnection: a failed ICE
\* transport makes the connection failed
ConnectionStates_pc ==
    { st \in [connectionState : {"new", "connecting", "connected", "failed"},
              iceConnectionState : {"new", "checking", "connected", "failed"}] :
        st.iceConnectionState = "failed" => st.connectionState = "failed" }

\* The refs and the wait, as one record the closures read and write.
App == [refs |-> refs, wait |-> wait]

\* pc.connectionState === 'connected' && dc?.readyState === 'open'
IsConnected(a) ==
    a.refs.connectionState = "connected" /\ a.refs.dc /\ a.refs.readyState = "open"

\* resolve(value) of the promise: only the first call settles it
resolve(a, value) ==
    [a EXCEPT !.wait.resolves = @ + 1,
              !.wait.promise = IF @ = "pending" THEN value ELSE @]

\* cleanup(): clearInterval(checkInterval); clearTimeout(timeoutId)
cleanup_wait(a) == [a EXCEPT !.wait.checkInterval = FALSE, !.wait.timeoutId = FALSE]

\* resolved = true; cleanup(); resolve(value)
settle(a, value) == resolve(cleanup_wait([a EXCEPT !.wait.resolved = TRUE]), value)

checkConnection_ignoresChannel(a) ==
    IF a.wait.resolved THEN a
    ELSE IF ~a.refs.pc THEN settle(a, "false")
    ELSE IF a.refs.connectionState = "connected" THEN settle(a, "true")
    ELSE IF a.refs.connectionState = "failed" \/ a.refs.iceConnectionState = "failed"
         THEN settle(a, "false")
    ELSE a

\* checkConnection()
checkConnection(a) ==
    IF a.wait.resolved THEN a
    ELSE IF ~a.refs.pc THEN settle(a, "false")
    ELSE IF IsConnected(a) THEN settle(a, "true")
    ELSE IF a.refs.connectionState = "failed" \/ a.refs.iceConnectionState = "failed"
         THEN settle(a, "false")
    ELSE a

\* waitForWebRTCConnection(timeoutMs): the executor of the promise. The timeout
\* is armed after the first checkConnection(), whose cleanup() therefore does
\* not clear it.
waitForWebRTCConnection(a) ==
    LET a0 == [a EXCEPT !.wait.promise = "pending", !.wait.now = 0]
    IN  IF ~a0.refs.pc THEN resolve(a0, "false")
        ELSE IF IsConnected(a0) THEN resolve(a0, "true")
        ELSE LET a1 == [a0 EXCEPT !.wait.checkInterval = TRUE, !.wait.due = 1]
                 a2 == checkConnection(a1)
             IN  [a2 EXCEPT !.wait.timeoutId = TRUE]

\* the callback of setTimeout(..., timeoutMs)
onTimeout(a) ==
    LET a1 == [a EXCEPT !.wait.timeoutId = FALSE]
    IN  IF ~a1.wait.resolved THEN settle(a1, "false") ELSE a1

ApplyApp(a) ==
    /\ refs' = a.refs
    /\ wait' = a.wait
    /\ UNCHANGED << serverVars, clientVars >>

\* setupWebRTC(): a new peer connection and its audio data channel
AppSetupWebRTC ==
    /\ ~refs.pc
    /\ ApplyApp([App EXCEPT !.refs = [pc |-> TRUE, connectionState |-> "new",
                                      iceConnectionState |-> "new",
                                      dc |-> TRUE, readyState |-> "connecting"]])

\* handleStop(): both closed and both refs null
AppHandleStop ==
    /\ refs.pc
    /\ ApplyApp([App EXCEPT !.refs = [pc |-> FALSE, connectionState |-> "new",
                                      iceConnectionState |-> "new",
                                      dc |-> FALSE, readyState |-> "connecting"]])

\* the browser moves the peer connection to another state
PeerStateChange ==
    /\ refs.pc
    /\ \E st \in ConnectionStates_pc :
        /\ << st.connectionState, st.iceConnectionState >>
              # << refs.connectionState, refs.iceConnectionState >>
        /\ ApplyApp([App EXCEPT !.refs.connectionState = st.connectionState,
                                !.refs.iceConnectionState = st.iceConnectionState])

\* dataChannel.onopen: the channel is open
DataChannelOpen ==
    /\ refs.dc /\ refs.readyState = "connecting"
    /\ ApplyApp([App EXCEPT !.refs.readyState = "open"])

\* dataChannel.onclose: audioDataChannelRef.current = null
DataChannelClose ==
    /\ refs.dc
    /\ ApplyApp([App EXCEPT !.refs.dc = FALSE, !.refs.readyState = "connecting"])

\* the conversation_started handler calls waitForWebRTCConnection(10000)
WaitBegin ==
    /\ wait.promise = "none"
    /\ ApplyApp(waitForWebRTCConnection(App))

\* one period of the interval passes; a timer that is due fires first
WaitTick ==
    /\ wait.promise # "none"
    /\ wait.now < Deadline
    /\ ~(wait.checkInterval /\ wait.due <= wait.now)
    /\ ApplyApp([App EXCEPT !.wait.now = @ + 1])

\* the interval is due: checkConnection()
WaitInterval ==
    /\ wait.checkInterval
    /\ wait.due <= wait.now
    /\ ApplyApp(checkConnection([App EXCEPT !.wait.due = @ + 1]))

\* the timeout is due
WaitTimeout ==
    /\ wait.timeoutId
    /\ Deadline <= wait.now
    /\ ApplyApp(onTimeout(App))

NextWait ==
    \/ AppSetupWebRTC
    \/ AppHandleStop
    \/ PeerStateChange
    \/ DataChannelOpen
    \/ DataChannelClose
    \/ WaitBegin
    \/ WaitTick
    \/ WaitInterval
    \/ WaitTimeout

InitWait == Init /\ env = "ok"

SpecWait == InitWait /\ [][NextWait]_vars

\* time passes and a timer that is due fires
SpecWaitFair ==
    SpecWait /\ WF_vars(WaitTick) /\ WF_vars(WaitInterval) /\ WF_vars(WaitTimeout)

\* ------------------------------------------------------------ properties
IsBlank(s) == \A i \in 1..Len(s) : IsSpace(s[i])

\* the frames the step writes to the control channel
Written(i) == i \in (Len(out) + 1)..Len(out')

Count(seq, from, type) ==
    Cardinality({ i \in (from + 1)..Len(seq) : seq[i].type = type })

\* C1: a final recognition result whose text is empty after trimming appends no
\* user turn to the history and issues no streamCompletion request.
C1_BlankFinalTriggersNothing ==
    [][ ( /\ lastEvent'.type = "transcript"
          /\ lastEvent'.isFinal
          /\ IsBlank(lastEvent'.text) )
        => ( /\ session'.conversationHistory = session.conversationHistory
             /\ calls' = calls ) ]_vars

\* C1 witness: a whitespace-only final result reached an active session that
\* holds a response pipeline.
C1_Witness ==
    /\ lastEvent.type = "transcript"
    /\ lastEvent.isFinal
    /\ lastEvent.text = <<" ">>
    /\ session.isActive
    /\ session.groqLLM # 0

\* C2: a completion whose stream was discarded by a later streamCompletion on the
\* same pipeline emits no further onToken and no onComplete.
C2_ReplacedCompletionIsSilent ==
    [][ \A i \in DOMAIN out' :
          ( Written(i) /\ out'[i].type \in {"llm_token", "llm_complete"} )
          => calls[out'[i].gen].stopped # "streamCompletion" ]_vars

\* C3: after an interrupt discarded the stream of a completion, no llm_token of
\* that completion is sent.
C3_NoTokenAfterInterrupt ==
    [][ \A i \in DOMAIN out' :
          ( Written(i) /\ out'[i].type = "llm_token" )
          => calls[out'[i].gen].stopped # "handleInterrupt" ]_vars

\* C4: once the failure of a generation has been handled, the history is the one
\* found immediately before the triggering user turn was appended.
C4_FailureRestoresHistory ==
    [][ \A c \in DOMAIN calls :
          ( calls[c].state # "failed" /\ calls'[c].state = "failed" )
          => session'.conversationHistory = calls[c].before ]_vars

\* C5 as stated, for an active session: two interrupt requests in a row write
\* exactly one 'interrupted' frame and no 'error' frame.
C5_TwoInterruptsOneFrame ==
    ( run.n = 2 /\ session.isActive )
        => ( /\ Count(out, run.from, "interrupted") = 1
             /\ Count(out, run.from, "error") = 0 )

\* C5 as amended: every interrupt request of a row writes one 'interrupted' frame
\* of its own and no 'error' frame, so two in a row write exactly two.
C5_EachInterruptOneFrame ==
    run.n >= 1 => ( /\ Count(out, run.from, "interrupted") = run.n
                    /\ Count(out, run.from, "error") = 0
                    /\ Len(out) = run.from + run.n )

\* C5 witness: two interrupt requests in a row in an active session, the first
\* of which discarded a stream
C5_Witness ==
    /\ run.n = 2
    /\ session.isActive
    /\ \E c \in DOMAIN calls : calls[c].stopped = "handleInterrupt"

\* C6: the delay scheduled before automatic attempt n since the last successful
\* open is reconnectDelay * n, for n = 1..5.
C6_DelayIsBaseTimesAttempt ==
    \A k \in DOMAIN timers :
        /\ timers[k].n \in 1..5
        /\ timers[k].delay = reconnectDelay * timers[k].n

\* C6 witness: four automatic attempts failed one after the other and the fifth
\* is scheduled
C6_Witness ==
    /\ Len(sockets) = 5
    /\ \A i \in DOMAIN sockets : sockets[i] = "CLOSED"
    /\ timers = << [delay |-> 5000, n |-> 5] >>

\* C7: no more than 5 automatic attempts are scheduled between two successful
\* opens: a close after the fifth schedules nothing.
C7_AtMostFiveAttempts ==
    /\ scheduled <= 5
    /\ \A k \in DOMAIN timers : timers[k].n <= 5

\* C7 witness: the fifth automatic attempt failed and nothing is scheduled
C7_Witness ==
    /\ scheduled = 5
    /\ timers = <<>>
    /\ Len(sockets) = 6
    /\ \A i \in DOMAIN sockets : sockets[i] = "CLOSED"

\* C8: every llm_complete follows one or more llm_token of its generation, is
\* the only one of its generation, is followed at once by the one tts_text of
\* its generation, with the same text, and no llm_token of it comes later.
C8_TokensThenCompleteThenTts ==
    \A i \in DOMAIN out :
        out[i].type = "llm_complete" =>
            /\ \E j \in 1..(i - 1) :
                 out[j].type = "llm_token" /\ out[j].gen = out[i].gen
            /\ \A j \in DOMAIN out :
                 ( out[j].type = "llm_complete" /\ out[j].gen = out[i].gen ) => j = i
            /\ i + 1 \in DOMAIN out
            /\ out[i + 1] = [out[i] EXCEPT !.type = "tts_text"]
            /\ \A j \in DOMAIN out :
                 ( out[j].type = "tts_text" /\ out[j].gen = out[i].gen ) => j = i + 1
            /\ \A j \in (i + 1)..Len(out) :
                 ~( out[j].type = "llm_token" /\ out[j].gen = out[i].gen )

\* C9: an offer whose SDP is the empty string gets an 'error' frame and no
\* webrtc_answer frame.  handleOffer has no check of its own: the formula holds
\* exactly when the negotiation stack rejects the empty description, which the
\* model leaves open (OfferAnswered, OfferRejected).
C9_EmptyOfferIsRefused ==
    [][ ( /\ session.ws = "OPEN"
          /\ offers # <<>>
          /\ Head(offers) = ""
          /\ offers' = Tail(offers) )
        => ( /\ \E i \in DOMAIN out' : Written(i) /\ out'[i].type = "error"
             /\ \A i \in DOMAIN out' : Written(i) => out'[i].type # "webrtc_answer" ) ]_vars

\* C10: when the control channel closes while a generation is streaming, the
\* session is torn down (not active, the connection of its recognition bridge
\* released) and removed from the registry, and nothing is written to the
\* channel afterwards.
C10_CloseMidGenerationTearsDown ==
    [][ /\ ( /\ session.ws = "OPEN"
             /\ session'.ws = "CLOSED"
             /\ \E c \in DOMAIN calls : calls[c].state = "streaming" )
           => ( /\ ~session'.isActive
                /\ SessionId \notin sessions'
                /\ session'.deepgramSTT # 0
                        => ~stts'[session'.deepgramSTT].connection )
        /\ session.ws = "CLOSED" => out' = out ]_vars

\* The part of C10 about the channel alone: nothing is written once it closed.
NoFrameAfterClose == [][ session.ws = "CLOSED" => out' = out ]_vars

\* ------------------------------------------------------- audio and teardown
\* the step handles a non-empty audio_chunk of the control channel
AudioChunkArrives ==
    lastEvent'.type = "audio_chunk" /\ Base64Bytes(lastEvent'.text) > 0

\* the step calls sendAudio of the bridge the session holds with a non-empty frame
Forwarded ==
    /\ session.deepgramSTT # 0
    /\ stts'[session.deepgramSTT].submitted = stts[session.deepgramSTT].submitted + 1

\* the step is a control message of the peer
ControlMessage ==
    lastEvent'.type \in {"start_conversation", "stop_conversation", "audio_chunk",
                         "webrtc_offer", "interrupt"}

\* C11: while useWebRTC is true, an audio_chunk of the control channel is not
\* forwarded to the recognition bridge: no bridge receives or queues a frame.
C11_ReadyTransportIgnoresFallback ==
    [][ ( lastEvent'.type = "audio_chunk" /\ session.useWebRTC = "true" )
        => stts' = stts ]_vars

\* C11 witness: the data channel is open, the session is active, a non-empty
\* audio_chunk arrived and the bridge holds frames of the transport only.
C11_Witness ==
    /\ lastEvent.type = "audio_chunk"
    /\ Base64Bytes(lastEvent.text) > 0
    /\ session.isActive
    /\ session.useWebRTC = "true"
    /\ signal = "ready"
    /\ stts[session.deepgramSTT].sent = << [from |-> "transport", bytes |-> 1, seq |-> 1] >>

\* C12: in an active session whose transport has not signalled ready, every
\* non-empty audio_chunk of the control channel is forwarded to the bridge.
C12_FallbackAcceptedUntilReady ==
    [][ ( AudioChunkArrives /\ session.isActive /\ signal # "ready" )
        => Forwarded ]_vars

\* C13: in an active session that the registry holds, after a transport failure
\* event and until the transport signals ready again, every non-empty
\* audio_chunk of the control channel is forwarded to the bridge.
C13_FallbackResumesAfterFailure ==
    [][ ( /\ AudioChunkArrives
          /\ session.isActive
          /\ SessionId \in sessions
          /\ signal = "failed" )
        => Forwarded ]_vars

\* C14: once the session is removed from the registry, a control message
\* changes no session state, creates no component and writes no frame.
C14_ClosedIsTerminal ==
    [][ ( ControlMessage /\ SessionId \notin sessions )
        => UNCHANGED << session, sessions, peers, pcs, stts, llms, calls, starts,
                        offers, out >> ]_vars

\* the step is a start_conversation that failed before it could wait for the bridge
StartFailsAtOnce ==
    /\ lastEvent'.type = "start_conversation"
    /\ ~session.isActive
    /\ starts' = starts

\* the step is the engine's error for the one bridge a start is waiting for
StartFailsByEngineError ==
    /\ lastEvent'.type = "stt_error"
    /\ Len(stts) = 1
    /\ starts = {1}

\* C15: a failed start (of a session that holds no peer connection, so that no
\* release call is involved) writes exactly one 'error' frame and leaves the
\* session not active and out of the registry; after a failed start the session
\* is never active again.
C15_StartFailureCloses ==
    /\ [][ ( /\ session.ws = "OPEN"
              /\ peers = {}
              /\ ( StartFailsAtOnce \/ StartFailsByEngineError ) )
            => ( /\ Len(out') = Len(out) + 1
                 /\ out'[Len(out')].type = "error"
                 /\ ~session'.isActive
                 /\ SessionId \notin sessions' ) ]_vars
    /\ []( ( \E i \in DOMAIN out : out[i].error = "Failed to start conversation" )
            => ~session.isActive )

\* C16: the failure of a generation in an active session writes one 'error'
\* frame and leaves the session active, registered, with the same bridge and the
\* same pipeline; the next final transcript with text issues a new request on
\* that pipeline.
C16_GenerationFailureKeepsSession ==
    /\ [][ ( lastEvent'.type = "llm_error" /\ session.isActive /\ session.ws = "OPEN" )
            => ( /\ Len(out') = Len(out) + 1
                 /\ out'[Len(out')].type = "error"
                 /\ session'.isActive
                 /\ session'.deepgramSTT = session.deepgramSTT
                 /\ session'.groqLLM = session.groqLLM
                 /\ UNCHANGED << sessions, stts, llms >> ) ]_vars
    /\ [][ ( /\ lastEvent'.type = "transcript"
              /\ lastEvent'.isFinal
              /\ ~IsBlank(lastEvent'.text)
              /\ session.isActive
              /\ \E c \in DOMAIN calls : calls[c].state = "failed" )
            => ( /\ Len(calls') = Len(calls) + 1
                 /\ calls'[Len(calls')].llm = session.groqLLM
                 /\ calls'[Len(calls')].state = "creating" ) ]_vars

\* C16 witness: the first generation failed, the session stayed active with its
\* channel open and the next final transcript issued the second request.
C16_Witness ==
    /\ session.isActive
    /\ session.ws = "OPEN"
    /\ Len(calls) = 2
    /\ calls[1].state = "failed"
    /\ calls[2].state = "creating"
    /\ lastEvent.type = "transcript"
    /\ \E i \in DOMAIN out : out[i].error = "Groq LLM error"

\* C17: when the engine reports an error or its connection closes while the
\* session is active, the bridge is no longer ready and the session is torn
\* down: not active, and removed from the registry.
C17_EngineFailureTearsDown ==
    [][ ( /\ lastEvent'.type \in {"stt_error", "stt_close"}
          /\ session.isActive
          /\ session.deepgramSTT = 1
          /\ Len(stts) = 1 )
        => ( /\ ~stts'[1].isConnectionReady
             /\ ~session'.isActive
             /\ SessionId \notin sessions' ) ]_vars

\* C18: once the control channel closed, and no release call threw, the registry
\* has no entry for the session, the negotiator holds no peer connection for it
\* and no connection to the recognition engine is left unreleased.
C18_CloseReleasesEverything ==
    ( session.ws = "CLOSED" /\ \A p \in DOMAIN pcs : ~pcs[p].threw )
        => ( /\ SessionId \notin sessions
             /\ SessionId \notin peers
             /\ \A s \in DOMAIN stts : ~stts[s].connection )

\* C19: a teardown of a registered session removes it from the registry, drops
\* the connection of its bridge and the stream of its pipeline, also when one
\* of the release calls fails.
C19_TeardownToleratesFailure ==
    [][ ( lastEvent'.type \in {"close", "error", "stop_conversation"}
          /\ SessionId \in sessions
          /\ ( lastEvent'.type = "stop_conversation" => session.isActive ) )
        => ( /\ SessionId \notin sessions'
             /\ session.deepgramSTT # 0 => ~stts'[session.deepgramSTT].connection
             /\ session.groqLLM # 0 => llms'[session.groqLLM].currentStream = 0 ) ]_vars

\* C20: a frame is written to the control channel only while the channel is
\* open: a step that writes finds it open and leaves it open.
C20_WritesOnlyWhenOpen ==
    [][ out' # out => ( session.ws = "OPEN" /\ session'.ws = "OPEN" ) ]_vars

\* C20 witness: the channel is closed and the stream of a generation delivered
\* a token afterwards.
C20_Witness ==
    /\ session.ws = "CLOSED"
    /\ lastEvent.type = "llm_chunk"
    /\ lastEvent.text # <<>>

\* ------------------------------------------------------ the pre-ready queue
\* the bridge is ready as sendAudio tests it
Ready(b) == b.isConnectionReady /\ b.connection

\* C21: the pre-ready queue of a bridge never holds more than audioQueueLimit
\* (100) frames; a frame submitted to a bridge that is not ready and whose queue
\* is full drops the oldest frame and is kept as the newest.
C21_QueueBoundedDropOldest ==
    /\ [](\A s \in DOMAIN stts : Len(stts[s].audioQueue) <= audioQueueLimit)
    /\ [][ \A s \in DOMAIN stts :
             ( /\ stts'[s].submitted = stts[s].submitted + 1
               /\ ~Ready(stts[s])
               /\ Len(stts[s].audioQueue) = audioQueueLimit )
             => ( /\ Len(stts'[s].audioQueue) = audioQueueLimit
                  /\ SubSeq(stts'[s].audioQueue, 1, audioQueueLimit - 1)
                        = Tail(stts[s].audioQueue)
                  /\ stts'[s].audioQueue[audioQueueLimit].seq = stts'[s].submitted ) ]_vars

\* C21 witness: an audio chunk reached a bridge not ready whose queue was full;
\* the queue is full, lost its oldest frames and ends with the frame submitted.
C21_Witness ==
    /\ lastEvent.type = "audio_chunk"
    /\ \E s \in DOMAIN stts :
         /\ ~Ready(stts[s])
         /\ Len(stts[s].audioQueue) = audioQueueLimit
         /\ stts[s].audioQueue[1].seq > 1
         /\ stts[s].audioQueue[audioQueueLimit].seq = stts[s].submitted

\* C22: when a bridge becomes ready, the frames of its queue are sent in the
\* order of the queue, after the frames already sent, and the queue is empty;
\* a ready bridge holds no queued frame, so that a frame submitted later is sent
\* after them; the engine receives the frames in the order they were submitted.
C22_FlushInOrderOnReady ==
    /\ [][ \A s \in DOMAIN stts :
             ( ~Ready(stts[s]) /\ Ready(stts'[s]) )
             => ( /\ stts'[s].sent = stts[s].sent \o stts[s].audioQueue
                  /\ stts'[s].audioQueue = <<>> ) ]_vars
    /\ [](\A s \in DOMAIN stts :
             /\ Ready(stts[s]) => stts[s].audioQueue = <<>>
             /\ \A i \in 1..(Len(stts[s].sent) - 1) :
                  stts[s].sent[i].seq < stts[s].sent[i + 1].seq)

\* C22 witness: a bridge became ready with a full queue that had dropped its
\* oldest frame, flushed it, and was sent one more frame afterwards.
C22_Witness ==
    \E s \in DOMAIN stts :
        /\ Ready(stts[s])
        /\ Len(stts[s].sent) = audioQueueLimit + 1
        /\ stts[s].sent[1].seq > 1
        /\ stts[s].sent[audioQueueLimit + 1].seq = stts[s].submitted

\* ------------------------------------------------------------ start requests
\* the step writes a conversation_started frame
StartedWritten ==
    \E i \in DOMAIN out' : Written(i) /\ out'[i].type = "conversation_started"

\* C23: start requests are serialized: at most one start waits for its bridge,
\* at most one bridge holds a connection to the engine, a start that constructs
\* a pipeline finds none waiting, and conversation_started is written only by a
\* step that activates a session that was not active.
C23_StartsAreSerialized ==
    /\ [](Cardinality(starts) <= 1)
    /\ [](Cardinality({ s \in DOMAIN stts : stts[s].connection }) <= 1)
    /\ [][ Len(llms') > Len(llms) => starts = {} ]_vars
    /\ [][ StartedWritten => ( ~session.isActive /\ session'.isActive ) ]_vars

\* C24: a step that activates the session or writes conversation_started finds
\* the bridge the session holds ready afterwards; a step that issues a generation
\* request finds a conversation_started already written.
C24_ActiveOnlyAfterReady ==
    /\ [][ ( ( ~session.isActive /\ session'.isActive ) \/ StartedWritten )
            => ( /\ session'.deepgramSTT # 0
                 /\ stts'[session'.deepgramSTT].isConnectionReady ) ]_vars
    /\ [][ Len(calls') > Len(calls)
            => \E i \in DOMAIN out : out[i].type = "conversation_started" ]_vars

\* C25: the step that completes a start (the session becomes active, or
\* conversation_started is written) leaves the history exactly << SystemTurn >>,
\* and while the session is active the first turn of the history is SystemTurn.
C25_HistorySeededAtStart ==
    /\ [][ ( ( ~session.isActive /\ session'.isActive ) \/ StartedWritten )
            => session'.conversationHistory = << SystemTurn >> ]_vars
    /\ []( session.isActive
            => ( /\ session.conversationHistory # <<>>
                 /\ Head(session.conversationHistory) = SystemTurn ) )

\* C26: an interrupt request leaves the active flag, the history, the bridge the
\* session holds, every bridge, and useWebRTC as they were.
C26_InterruptKeepsTopLevelState ==
    [][ lastEvent'.type = "interrupt"
        => ( /\ session'.isActive = session.isActive
             /\ session'.conversationHistory = session.conversationHistory
             /\ session'.deepgramSTT = session.deepgramSTT
             /\ session'.useWebRTC = session.useWebRTC
             /\ stts' = stts ) ]_vars

\* C26 witness: an interrupt discarded the stream of a generation in an active
\* session whose history holds the user turn of that generation.
C26_Witness ==
    /\ lastEvent.type = "interrupt"
    /\ session.isActive
    /\ Len(session.conversationHistory) = 2
    /\ \E c \in DOMAIN calls : calls[c].stopped = "handleInterrupt"

\* ------------------------------------------------- signalling and protocol
\* the peer connections that close() has not closed
Unclosed == { p \in DOMAIN pcs : ~pcs[p].closed }

\* C27: a remote ICE candidate, whether missing, empty, added or rejected by
\* the negotiation stack, with or without a peer for the session, raises
\* nothing, writes no frame (so no 'error') and leaves the session, the registry
\* and the components of the session as they were.
C27_CandidateNeverRaises ==
    [][ lastEvent'.type = "webrtc_ice_candidate"
        => ( /\ alive'
             /\ out' = out
             /\ UNCHANGED << session, sessions, peers, stts, llms, calls, starts >> ) ]_vars

\* C27 witness: the stack rejected a candidate with text for a session that
\* holds a peer and is active.
C27_Witness ==
    /\ lastEvent.type = "webrtc_ice_candidate"
    /\ lastEvent.text = << "text", "throws" >>
    /\ SessionId \in peers
    /\ session.isActive

\* C28: cleanup for an id the registry holds, when close() returns, closes the
\* peer connection and removes the id; cleanup for an id the registry does not
\* hold (never created, or closed before) changes nothing and raises nothing,
\* also when close() would throw.
C28_CleanupIsIdempotent ==
    [][ lastEvent'.type = "cleanup"
        => IF lastEvent'.text = << "registered", "none" >>
           THEN /\ SessionId \notin peers'
                /\ pcs' = [pcs EXCEPT ![Len(pcs)].closed = TRUE]
                /\ alive'
           ELSE IF lastEvent'.text[1] = "unknown"
                THEN /\ UNCHANGED << peers, pcs >>
                     /\ alive'
                ELSE TRUE ]_vars

\* C28 witness: cleanup was called for an id whose peer connection an earlier
\* cleanup had closed.
C28_Witness ==
    /\ lastEvent.type = "cleanup"
    /\ lastEvent.text[1] = "unknown"
    /\ Len(pcs) = 1
    /\ pcs[1].closed
    /\ peers = {}

C30_BadMessageIsDropped ==
    [][ lastEvent'.type = "message"
        => ( /\ alive'
             /\ session'.ws = "OPEN"
             /\ UNCHANGED << session, sessions, peers, pcs, stts, llms, calls, starts,
                             offers >> ) ]_vars

\* C30 witness: a payload that is not JSON reached an active session, which is
\* still active, registered, and was sent the 'Invalid message format' error.
C30_Witness ==
    /\ lastEvent.type = "message"
    /\ lastEvent.text = << "{" >>
    /\ session.isActive
    /\ SessionId \in sessions
    /\ out[Len(out)].error = "Invalid message format"

\* ------------------------------------------------------------ teardown order
\* the place of a component in the order of release the teardown is to follow
Rank(component) == [deepgramSTT |-> 1, groqLLM |-> 2, webrtcServer |-> 3][component]

\* C31: the release calls of a teardown are made in the order recognition
\* bridge, response pipeline, transport negotiator.
C31_TeardownOrder ==
    \A i, j \in DOMAIN released :
        i < j => Rank(released[i]) < Rank(released[j])

\* ---------------------------------------------------------------- generation
\* the frames the step writes to the control channel, in order
NewFrames == SubSeq(out', Len(out) + 1, Len(out'))

\* the step is the end of the stream of call c
StreamEnds(c) == calls[c].state = "streaming" /\ calls'[c].state = "done"

Settled == wait.promise \in {"true", "false"}

\* the step settles the promise of the wait with the value
Settles(value) == wait.promise \in {"none", "pending"} /\ wait'.promise = value

\* the step runs a check of the wait: its first one or one of the interval
Checks ==
    \/ wait.promise = "none" /\ wait'.promise # "none"
    \/ wait.promise = "pending" /\ wait'.due = wait.due + 1

\* the states the peer connection is in when the step begins
Failed == refs.connectionState = "failed" \/ refs.iceConnectionState = "failed"

\* the step is the callback of the timeout, at the deadline
TimesOut == wait.timeoutId /\ ~wait'.timeoutId /\ wait.now = Deadline

\* C33: a wait for the transport settles, and resolve is called once: with
\* true only at a check that finds the peer connection connected and the audio
\* data channel open; with false at a check that finds no peer connection or a
\* failed connection or ICE state, or when the timeout expires; a check that
\* finds no peer connection, or a failed one that is not ready, settles false.
C33_WaitSettlesOnce ==
    /\ [](wait.resolves <= 1 /\ (Settled <=> wait.resolves = 1))
    /\ [][ /\ Settles("true") => Checks /\ refs.pc /\ IsConnected(App)
           /\ Settles("false") =>
                \/ Checks /\ (~refs.pc \/ Failed)
                \/ TimesOut
           /\ (Checks /\ (~refs.pc \/ (Failed /\ ~IsConnected(App))))
                => wait'.promise = "false" ]_vars
    /\ (wait.promise = "pending") ~> Settled

\* C33 witness: the wait found the transport neither ready nor failed at every
\* check, and the timeout settled it with false at the deadline.
C33_Witness ==
    /\ wait.promise = "false"
    /\ wait.resolves = 1
    /\ wait.now = Deadline
    /\ wait.due = Deadline + 1
    /\ refs.pc
    /\ ~Failed

\* ---------------------------------------------------------------- late start
\* C34: the step after a close of the control channel or a stop_conversation
\* does not make the session active: a start_conversation that was waiting for
\* the bridge when the channel closed or the stop was handled does not complete.
C34_NoLateActivation ==
    [][ lastEvent.type \in {"close", "stop_conversation"}
          => ~(~session.isActive /\ session'.isActive) ]_vars

\* ---------------------------------------------------------------- interrupted
\* C35: the end of a stream on which stop() of the pipeline was called while it
\* was in flight writes no frame (no llm_complete, no tts_text) and leaves the
\* history as it is (no assistant turn).
C35_InterruptedIsSilent ==
    [][ \A c \in DOMAIN calls :
          (StreamEnds(c) /\ calls[c].stopped # "")
            => /\ out' = out
               /\ session'.conversationHistory = session.conversationHistory ]_vars

\* ---------------------------------------------------------------- token sums
\* the texts of the llm_token frames of generation g among the first n frames,
\* concatenated in the order sent
RECURSIVE TokensOf(_, _)
TokensOf(g, n) ==
    IF n = 0 THEN <<>>
    ELSE IF out[n].type = "llm_token" /\ out[n].gen = g
         THEN TokensOf(g, n - 1) \o out[n].text
         ELSE TokensOf(g, n - 1)

\* C36: the text of every llm_complete frame is the concatenation, in the order
\* sent, of the llm_token frames of the same generation sent before it.
C36_CompleteIsTokenSum ==
    \A k \in DOMAIN out :
        out[k].type = "llm_complete" => out[k].text = TokensOf(out[k].gen, k)

\* ---------------------------------------------------------------- old streams
\* a conversation was stopped: conversation_stopped was written
Stopped == \E k \in DOMAIN out : out[k].type = "conversation_stopped"

\* C37: after a stop_conversation and a new start_conversation, the end of a
\* stream of a pipeline of an earlier conversation leaves the history of the
\* current conversation as it is.
C37_OldCompletionKeepsHistory ==
    [][ \A c \in DOMAIN calls :
          (StreamEnds(c) /\ Stopped /\ calls[c].llm # session.groqLLM)
            => session'.conversationHistory = session.conversationHistory ]_vars

\* ---------------------------------------------------------------- disconnect
\* C38: the close event of a socket that disconnect() closed schedules no
\* reconnect: no timer is added and the attempt counter is left as it is.
C38_DisconnectEndsReconnects ==
    [][ \A i \in DOMAIN sockets :
          (sockets[i] = "CLOSING" /\ sockets'[i] = "CLOSED")
            => timers' = timers /\ reconnectAttempts' = reconnectAttempts ]_vars

\* ---------------------------------------------------------------- frame gate
\* the step handles an audio frame of the control channel or of the transport
FrameArrives == lastEvent'.type \in {"audio_chunk", "audio_data"}

\* C39: an audio frame of either source reaches a bridge (is sent or queued)
\* only when the session is active and registered as the frame arrives, and a
\* frame never makes the server write anything to the control channel.
C39_FramesOnlyWhenActiveAndRegistered ==
    [][ FrameArrives =>
          /\ stts' # stts => (session.isActive /\ SessionId \in sessions)
          /\ out' = out ]_vars

====
